---- MODULE Spec2Model ----
(***************************************************************************)
(* A model of the retail ETL pipeline: src/src/transform.py (cleaning,     *)
(* enrichment, metrics, aggregation), src/src/validate.py (quality checks) *)
(* and the run of src/pipeline.py from extraction (src/src/extract.py) to  *)
(* the load of the outputs (src/src/load.py).                              *)
(*                                                                         *)
(* Representation.  A batch (pandas DataFrame) is a sequence of rows; a    *)
(* row is a function from column names to cells.  A cell is a record       *)
(* [t, n, s]: t is the kind of value, n its number, s its text.            *)
(*   "null"   a missing value: None or NaN in a column of strings, NaT in  *)
(*            a column of dates, pd.NA in a nullable (masked) column       *)
(*   "nan"    the float NaN in a numeric column.  In a float64 column it   *)
(*            is the missing value; in a nullable Float64 column, which    *)
(*            every product with the Int64 quantity is, it is a value of   *)
(*            its own: arithmetic and sums propagate it, only pd.NA is     *)
(*            skipped                                                      *)
(*   "str"    a Python string, s its text                                  *)
(*   "num"    a float64/int64 number, n in units of 1/10000                *)
(*   "Int64"  a nullable-integer value, n the integer itself               *)
(*   "date"   a parsed timestamp, n = YYYYMMDD                             *)
(*   "inf"    the float infinity a division by zero produces               *)
(* Floating-point numbers are modelled as exact decimals with four places, *)
(* which is exact for every product the inputs below can form.             *)
(***************************************************************************)
EXTENDS Integers, Sequences, FiniteSets, TLC

VARIABLES sales_file, products_file, raw_sales, raw_products, pc, raised_in,
          error, validation_results, written,
          clean_sales_df, reclean_sales_df, clean_products_df,
          merged_df, enriched_df,
          category_summary, store_summary, daily_summary,
          check_input, check_result

vars == <<sales_file, products_file, raw_sales, raw_products, pc, raised_in,
          error, validation_results, written,
          clean_sales_df, reclean_sales_df, clean_products_df,
          merged_df, enriched_df,
          category_summary, store_summary, daily_summary,
          check_input, check_result>>

-----------------------------------------------------------------------------
(* Bounds *)

\* the largest number of rows of a raw sales batch
MaxRows == 3

-----------------------------------------------------------------------------
(* Cells *)

\* one unit of a "num" cell is 1/Scale
Scale == 100 * 100

Null == [t |-> "null", n |-> 0, s |-> ""]
NaN == [t |-> "nan", n |-> 0, s |-> ""]
Str(x) == [t |-> "str", n |-> 0, s |-> x]
\* Num(c) is the number c/100: Num(2999) is 29.99
Num(c) == [t |-> "num", n |-> c * 100, s |-> ""]
Fix(n) == [t |-> "num", n |-> n, s |-> ""]
Int64(q) == [t |-> "Int64", n |-> q, s |-> ""]
Date(d) == [t |-> "date", n |-> d, s |-> ""]
Inf == [t |-> "inf", n |-> 0, s |-> ""]

\* pd.isna(value)
IsNa(c) == c.t \in {"null", "nan"}

\* the mask of a nullable column: the value is pd.NA
IsMasked(c) == c.t = "null"

Abs(x) == IF x < 0 THEN -x ELSE x

\* numpy's round to two decimals (ties to even) of a value in 1/10000 units
Round2(n) ==
    LET a == Abs(n)
        q == a \div 100
        r == a % 100
        up == IF r > 50 \/ (r = 50 /\ q % 2 = 1) THEN q + 1 ELSE q
    IN  IF n < 0 THEN -(up * 100) ELSE up * 100

\* the nearest integer to num/den, ties to even
RoundDiv(num, den) ==
    LET sn == IF (num < 0) = (den < 0) THEN 1 ELSE -1
        a == Abs(num)
        b == Abs(den)
        q == a \div b
        r == a % b
        up == IF 2 * r > b \/ (2 * r = b /\ q % 2 = 1) THEN q + 1 ELSE q
    IN  sn * up

\* the nearest integer to 10000 * num / den, ties to even, by long division
\* (two steps of two decimal digits, so that no product leaves 32 bits)
RoundDiv10000(num, den) ==
    LET sn == IF (num < 0) = (den < 0) THEN 1 ELSE -1
        a == Abs(num)
        b == Abs(den)
        q0 == a \div b
        r0 == a % b
        q1 == (r0 * 100) \div b
        r1 == (r0 * 100) % b
        q2 == (r1 * 100) \div b
        r2 == (r1 * 100) % b
        q == q0 * 10000 + q1 * 100 + q2
        up == IF 2 * r2 > b \/ (2 * r2 = b /\ q % 2 = 1) THEN q + 1 ELSE q
    IN  sn * up

-----------------------------------------------------------------------------
(* Conversions of pandas, defined on the literals the inputs use *)

\* float("..."): the number a string parses to, in 1/10000 units; -1 = no parse
ParseNumber(s) ==
    CASE s = "3" -> 3 * Scale
      [] s = "2.5" -> 25000
      [] s = "12.50" -> 125000
      [] OTHER -> -1

\* strptime(s, "%Y-%m-%d"): YYYYMMDD, or 0 when s does not match the format
ParseDate(s) ==
    CASE s = "2024-01-15" -> 20240115
      [] s = "2024-01-16" -> 20240116
      [] s = "2024-01-17" -> 20240117
      [] OTHER -> 0

\* str.strip()
Strip(s) ==
    CASE s = " Electronics " -> "Electronics"
      [] s = "Stationery  " -> "Stationery"
      [] s = " P002" -> "P002"
      [] s = " WriteWell " -> "WriteWell"
      [] OTHER -> s

\* pd.to_numeric(series, errors="coerce"), cell by cell: what is not a number
\* becomes NaN
ToNumeric(c) ==
    CASE c.t = "num" -> c
      [] c.t = "Int64" -> c
      [] c.t = "str" -> IF ParseNumber(c.s) >= 0 THEN Fix(ParseNumber(c.s)) ELSE NaN
      [] OTHER -> NaN

\* a to_datetime that parses strings only and loses a value that is a date
ToDatetimeStringsOnly(c) ==
    IF c.t = "str" /\ ParseDate(c.s) > 0 THEN Date(ParseDate(c.s)) ELSE Null

\* pd.to_datetime(series, format="%Y-%m-%d", errors="coerce"), cell by cell
ToDatetime(c) ==
    CASE c.t = "date" -> c
      [] c.t = "str" -> IF ParseDate(c.s) > 0 THEN Date(ParseDate(c.s)) ELSE Null
      [] OTHER -> Null

\* series.fillna(value), cell by cell
FillNa(c, value) == IF IsNa(c) THEN value ELSE c

\* series.astype("Int64") refuses a float that is not a whole number
CanCastInt64(c) == c.t = "num" => c.n % Scale = 0

\* series.astype("Int64"), cell by cell, on a cell that can be cast
AsInt64(c) ==
    CASE c.t = "num" -> Int64(c.n \div Scale)
      [] c.t = "Int64" -> c
      [] OTHER -> Null

-----------------------------------------------------------------------------
(* Batches *)

\* the value a stage returns: a batch; NoFrame stands for "no value" (the
\* stage has not run, or it raised)
Ok(rows) == [ok |-> TRUE, rows |-> rows]
NoFrame == [ok |-> FALSE, rows |-> <<>>]

Indices(rows) == 1..Len(rows)

\* the rows at the positions in keep, in their original order
RECURSIVE TakeFrom(_, _, _)
TakeFrom(rows, keep, i) ==
    IF i > Len(rows) THEN <<>>
    ELSE (IF i \in keep THEN <<rows[i]>> ELSE <<>>) \o TakeFrom(rows, keep, i + 1)

-----------------------------------------------------------------------------
(* Inputs: the raw batches the extract stage hands over *)

SaleRow(tid, date, pid, qty, price, cust, store, disc) ==
    [transaction_id |-> tid, date |-> date, product_id |-> pid, quantity |-> qty,
     unit_price |-> price, customer_id |-> cust, store_id |-> store,
     discount_pct |-> disc]

ProductRow(pid, name, category, brand, cost) ==
    [product_id |-> pid, name |-> name, category |-> category, brand |-> brand,
     cost_price |-> cost]

SalesColumns ==
    {"transaction_id", "date", "product_id", "quantity", "unit_price",
     "customer_id", "store_id", "discount_pct"}

\* rows of a raw sales batch: the three rows of the test fixture, then dirty ones
SalesRows ==
    { SaleRow(Str("T001"), Str("2024-01-15"), Str("P001"), Num(200), Num(2999),
              Str("C101"), Str("S01"), Num(0)),
      SaleRow(Str("T002"), Str("2024-01-16"), Str("P002"), Num(100), Num(999),
              Str("C102"), Str("S01"), Num(10)),
      SaleRow(Str("T003"), Str("2024-01-17"), Str("P001"), Str("3"), Num(2999),
              Null, Str("S02"), Num(5)),
      \* a second T001, differing from the first
      SaleRow(Str("T001"), Str("2024-01-16"), Str("P002"), Num(100), Num(999),
              Str("C102"), Str("S02"), Null),
      \* no catalogue match, date in another format
      SaleRow(Str("T004"), Str("15/01/2024"), Str("P999"), Num(200), Num(2999),
              Str("C101"), Str("S01"), Num(0)),
      \* fractional quantity
      SaleRow(Str("T006"), Str("2024-01-15"), Str("P001"), Str("2.5"), Num(2999),
              Str("C101"), Str("S01"), Num(0)),
      \* unit price and discount that are not numbers
      SaleRow(Str("T007"), Str("2024-01-16"), Str("P002"), Num(200), Str("n/a"),
              Str("C101"), Str("S02"), Str("x")),
      \* every cell missing
      SaleRow(Null, Null, Null, Null, Null, Null, Null, Null),
      \* a full discount: net revenue is exactly zero
      SaleRow(Str("T008"), Str("2024-01-15"), Str("P001"), Num(200), Num(2999),
              Str("C101"), Str("S01"), Num(100)),
      \* a second row without transaction id; its quantity is not a number
      SaleRow(Null, Str("2024-01-17"), Str("P002"), Str("abc"), Num(999),
              Str("C102"), Str("S02"), Num(0)) }

SalesBatches == UNION {[1..n -> SalesRows] : n \in 0..MaxRows}

\* the catalogue of the test fixture, plus a product of unknown cost
Catalogue ==
    << ProductRow(Str("P001"), Str("Wireless Mouse"), Str("Electronics"),
                  Str("TechGear"), Num(1250)),
       ProductRow(Str("P002"), Str("Notebook (A5)"), Str("Stationery"),
                  Str("WriteWell"), Num(325)),
       ProductRow(Str("P003"), Str("Desk Lamp"), Str("Electronics"),
                  Str("TechGear"), Null) >>

\* the same products with padded strings and a cost price given as text
PaddedCatalogue ==
    << ProductRow(Str("P001"), Str("Wireless Mouse"), Str(" Electronics "),
                  Str("TechGear"), Str("12.50")),
       ProductRow(Str(" P002"), Str("Notebook (A5)"), Str("Stationery  "),
                  Str(" WriteWell "), Str("n/a")) >>

\* a catalogue that lists P001 twice and has a product without identifier
DuplicateCatalogue ==
    << ProductRow(Str("P001"), Str("Wireless Mouse"), Str("Electronics"),
                  Str("TechGear"), Num(1250)),
       ProductRow(Str("P001"), Str("Wireless Mouse"), Str("Accessories"),
                  Str("TechGear"), Num(1250)),
       ProductRow(Null, Str("Notebook (A5)"), Null, Null, Null) >>

ProductBatches == {Catalogue, PaddedCatalogue, DuplicateCatalogue}

-----------------------------------------------------------------------------
(* transform.py: cleaning *)

\* keep="last": an equal key occurs later
DuplicatedKeepLast(rows, col, i) ==
    \E j \in (i + 1)..Len(rows) : rows[j][col] = rows[i][col]

\* df.duplicated(subset=[col], keep="first"): an equal key occurs earlier
DuplicatedKeepFirst(rows, col, i) ==
    \E j \in 1..(i - 1) : rows[j][col] = rows[i][col]

\* df.drop_duplicates(subset=[col], keep="first")
DropDuplicates(rows, col) ==
    TakeFrom(rows, {i \in Indices(rows) : ~DuplicatedKeepFirst(rows, col, i)}, 1)

\* steps 2 to 4 of clean_sales on one row
CleanSalesRow(r) ==
    [r EXCEPT !["date"] = ToDatetime(@),
              !["customer_id"] = FillNa(@, Str("UNKNOWN")),
              !["quantity"] = AsInt64(ToNumeric(@)),
              !["unit_price"] = ToNumeric(@),
              !["discount_pct"] = FillNa(ToNumeric(@), Fix(0))]

\* clean_sales(df): NoFrame when astype("Int64") raises TypeError
clean_sales(df) ==
    LET deduped == DropDuplicates(df, "transaction_id")
    IN  IF \A i \in Indices(deduped) : CanCastInt64(ToNumeric(deduped[i]["quantity"]))
        THEN Ok([i \in Indices(deduped) |-> CleanSalesRow(deduped[i])])
        ELSE NoFrame

\* df.select_dtypes(include="object"): a column that holds a string is of
\* dtype object
IsObjectColumn(rows, col) == \E i \in Indices(rows) : rows[i][col].t = "str"

\* col.str.strip(): a value that is not a string becomes NaN
StrStrip(c) == IF c.t = "str" THEN Str(Strip(c.s)) ELSE Null

ProductColumns == {"product_id", "name", "category", "brand", "cost_price"}

\* clean_products(df)
clean_products(df) ==
    LET stripped ==
            [i \in Indices(df) |->
                [col \in ProductColumns |->
                    IF IsObjectColumn(df, col) THEN StrStrip(df[i][col])
                    ELSE df[i][col]]]
    IN  Ok([i \in Indices(df) |->
               [stripped[i] EXCEPT !["cost_price"] = ToNumeric(@)]])

-----------------------------------------------------------------------------
(* transform.py: enrichment *)

MergedColumns == {"name", "category", "brand", "cost_price"}

\* one row of the merge: the sale's columns, then the product's
JoinRow(sale, prod) ==
    [col \in DOMAIN sale \cup MergedColumns |->
        IF col \in DOMAIN sale THEN sale[col] ELSE prod[col]]

\* the product columns of a sale without product: NaN in the float64 column
NullProduct ==
    [col \in MergedColumns \cup {"product_id"} |->
        IF col = "cost_price" THEN NaN ELSE Null]

\* the rows a left join gives for one sale: one per product row with an equal
\* key (pandas matches a missing key with a missing key), in catalogue order,
\* and one row of missing product columns when there is none
RECURSIVE JoinMatches(_, _, _)
JoinMatches(sale, products, j) ==
    IF j > Len(products) THEN <<>>
    ELSE (IF products[j]["product_id"] = sale["product_id"]
          THEN <<JoinRow(sale, products[j])>> ELSE <<>>)
         \o JoinMatches(sale, products, j + 1)

\* how="inner": a sale without product gives no row
JoinSaleInner(sale, products) == JoinMatches(sale, products, 1)

JoinSale(sale, products) ==
    LET m == JoinMatches(sale, products, 1)
    IN  IF m = <<>> THEN <<JoinRow(sale, NullProduct)>> ELSE m

RECURSIVE LeftJoin(_, _, _)
LeftJoin(sales, products, i) ==
    IF i > Len(sales) THEN <<>>
    ELSE JoinSale(sales[i], products) \o LeftJoin(sales, products, i + 1)

\* merge_sales_products(sales_df, products_df)
merge_sales_products(sales_df, products_df) == Ok(LeftJoin(sales_df, products_df, 1))

-----------------------------------------------------------------------------
(* transform.py: calculated columns *)

\* the value of a numeric cell in 1/10000 units
Val(c) == IF c.t = "Int64" THEN c.n * Scale ELSE c.n

\* the exact product of two values in 1/10000 units, one of which is a whole
\* number or both of which have at most two decimals
Product(x, y) ==
    IF x % Scale = 0 THEN (x \div Scale) * y
    ELSE IF y % Scale = 0 THEN x * (y \div Scale)
    ELSE (x \div 100) * (y \div 100)

\* a * b, a - b where a column is nullable: the result is pd.NA where an
\* operand is pd.NA, and NaN where an operand is NaN
Mul(a, b) ==
    IF IsMasked(a) \/ IsMasked(b) THEN Null
    ELSE IF IsNa(a) \/ IsNa(b) THEN NaN
    ELSE Fix(Product(Val(a), Val(b)))

Sub(a, b) ==
    IF IsMasked(a) \/ IsMasked(b) THEN Null
    ELSE IF IsNa(a) \/ IsNa(b) THEN NaN
    ELSE Fix(Val(a) - Val(b))

\* series.replace(0, pd.NA)
ReplaceZeroNa(c) == IF ~IsNa(c) /\ Val(c) = 0 THEN Null ELSE c

\* ((a / b) * 100).round(2): a float division by zero gives inf (nan for 0/0)
PctRound2(a, b) ==
    IF IsMasked(a) \/ IsMasked(b) THEN Null
    ELSE IF IsNa(a) \/ IsNa(b) THEN NaN
    ELSE IF Val(b) = 0 THEN (IF Val(a) = 0 THEN NaN ELSE Inf)
    ELSE Fix(RoundDiv10000(Val(a), Val(b)) * 100)

\* a denominator that keeps a zero
MarginDenominatorUnguarded(net_revenue) == net_revenue

\* the denominator of the margin: df["net_revenue"].replace(0, pd.NA)
MarginDenominator(net_revenue) == ReplaceZeroNa(net_revenue)

\* a discount that reads discount_pct as a percentage
DiscountAmountPercent(gross_revenue, discount_pct) ==
    IF IsNa(gross_revenue) \/ IsNa(discount_pct) THEN Mul(gross_revenue, discount_pct)
    ELSE Fix(Product(Val(gross_revenue), Val(discount_pct)) \div 100)

\* df["gross_revenue"] * df["discount_pct"]
DiscountAmount(gross_revenue, discount_pct) == Mul(gross_revenue, discount_pct)

MetricsRow(r) ==
    LET gross_revenue == Mul(r["quantity"], r["unit_price"])
        discount_amount == DiscountAmount(gross_revenue, r["discount_pct"])
        net_revenue == Sub(gross_revenue, discount_amount)
        cost_total == Mul(r["quantity"], r["cost_price"])
        profit == Sub(net_revenue, cost_total)
        profit_margin_pct == PctRound2(profit, MarginDenominator(net_revenue))
    IN  r @@ [gross_revenue |-> gross_revenue, discount_amount |-> discount_amount,
              net_revenue |-> net_revenue, cost_total |-> cost_total,
              profit |-> profit, profit_margin_pct |-> profit_margin_pct]

\* calculate_metrics(df)
calculate_metrics(df) == Ok([i \in Indices(df) |-> MetricsRow(df[i])])

-----------------------------------------------------------------------------
(* transform.py: aggregations *)

\* the order of strings that are group keys ("Accessories" < "Electronics" ...)
StrRank(s) ==
    CASE s = "Accessories" -> 1
      [] s = "Electronics" -> 2
      [] s = "Stationery" -> 3
      [] s = "S01" -> 4
      [] s = "S02" -> 5
      [] OTHER -> 0

KeyRank(c) == IF c.t = "str" THEN StrRank(c.s) ELSE c.n

\* the groups of df.groupby(key): dropna=True is the default, so a row whose
\* key is missing belongs to no group
GroupKeys(df, key) == {df[i][key] : i \in Indices(df)} \ {Null}

\* groupby sorts the group keys (sort=True is the default)
RECURSIVE SortedKeys(_)
SortedKeys(keys) ==
    IF keys = {} THEN <<>>
    ELSE LET k == CHOOSE x \in keys : \A y \in keys : KeyRank(x) <= KeyRank(y)
         IN  <<k>> \o SortedKeys(keys \ {k})

\* the positions of the rows of one group
Members(df, key, k) == {i \in Indices(df) : df[i][key] = k}

\* the sum of the values at the positions in a set
RECURSIVE SumVal(_, _, _)
SumVal(df, col, members) ==
    IF members = {} THEN 0
    ELSE LET i == CHOOSE x \in members : TRUE
         IN  Val(df[i][col]) + SumVal(df, col, members \ {i})

\* the members of a group whose value in col is not pd.NA / None
Present(df, col, members) == {i \in members : ~IsMasked(df[i][col])}

\* ("col", "count"): the number of values that are not missing
AggCount(df, col, members) == Int64(Cardinality(Present(df, col, members)))

\* ("col", "sum") on a Float64 column, then .round(2): pd.NA is skipped, a NaN
\* makes the sum NaN, and the sum of no value is 0
AggSum(df, col, members) ==
    LET p == Present(df, col, members)
    IN  IF \E i \in p : df[i][col].t = "nan" THEN NaN
        ELSE Fix(Round2(SumVal(df, col, p)))

\* ("col", "sum") on the Int64 column
AggSumInt(df, col, members) ==
    Int64(SumVal(df, col, Present(df, col, members)) \div Scale)

\* ("col", "mean") on a Float64 column, then .round(2): pd.NA is skipped, a
\* NaN makes the mean NaN, and the mean of no value is pd.NA
AggMean(df, col, members) ==
    LET p == Present(df, col, members)
    IN  IF p = {} THEN Null
        ELSE IF \E i \in p : df[i][col].t = "nan" THEN NaN
        ELSE Fix(Round2(RoundDiv(SumVal(df, col, p), Cardinality(p))))

\* a <= b, the order of an ascending sort
SortsNotBefore(a, b) ==
    IF b.t = "nan" THEN TRUE
    ELSE IF a.t = "nan" THEN FALSE
    ELSE Val(a) <= Val(b)

\* a >= b in the order of a descending sort: NaN sorts before every number
SortsNotAfter(a, b) ==
    IF a.t = "nan" THEN TRUE
    ELSE IF b.t = "nan" THEN FALSE
    ELSE Val(a) >= Val(b)

\* sort_values(col, ascending=False): rows of equal value keep their order
RECURSIVE SortDescFrom(_, _, _, _)
SortDescFrom(rows, col, i, acc) ==
    IF i > Len(rows) THEN acc
    ELSE LET p == Cardinality({j \in Indices(acc) :
                                 SortsNotAfter(acc[j][col], rows[i][col])})
         IN  SortDescFrom(rows, col, i + 1,
                          SubSeq(acc, 1, p) \o <<rows[i]>> \o SubSeq(acc, p + 1, Len(acc)))

SortValuesDesc(rows, col) == SortDescFrom(rows, col, 1, <<>>)

CategoryRow(df, k) ==
    LET m == Members(df, "category", k)
    IN  [category |-> k,
         total_transactions |-> AggCount(df, "transaction_id", m),
         total_units_sold |-> AggSumInt(df, "quantity", m),
         total_gross_revenue |-> AggSum(df, "gross_revenue", m),
         total_net_revenue |-> AggSum(df, "net_revenue", m),
         total_profit |-> AggSum(df, "profit", m)]

\* aggregate_by_category(df)
aggregate_by_category(df) ==
    LET keys == SortedKeys(GroupKeys(df, "category"))
    IN  Ok(SortValuesDesc([g \in Indices(keys) |-> CategoryRow(df, keys[g])],
                          "total_net_revenue"))

StoreRow(df, k) ==
    LET m == Members(df, "store_id", k)
    IN  [store_id |-> k,
         total_transactions |-> AggCount(df, "transaction_id", m),
         total_units_sold |-> AggSumInt(df, "quantity", m),
         total_net_revenue |-> AggSum(df, "net_revenue", m),
         total_profit |-> AggSum(df, "profit", m),
         avg_profit_margin_pct |-> AggMean(df, "profit_margin_pct", m)]

\* aggregate_by_store(df)
aggregate_by_store(df) ==
    LET keys == SortedKeys(GroupKeys(df, "store_id"))
    IN  Ok(SortValuesDesc([g \in Indices(keys) |-> StoreRow(df, keys[g])],
                          "total_net_revenue"))

DateRow(df, k) ==
    LET m == Members(df, "date", k)
    IN  [date |-> k,
         total_transactions |-> AggCount(df, "transaction_id", m),
         total_units_sold |-> AggSumInt(df, "quantity", m),
         total_net_revenue |-> AggSum(df, "net_revenue", m),
         total_profit |-> AggSum(df, "profit", m)]

\* aggregate_by_date(df): sort_values("date") keeps the order of the keys
aggregate_by_date(df) ==
    LET keys == SortedKeys(GroupKeys(df, "date"))
    IN  Ok([g \in Indices(keys) |-> DateRow(df, keys[g])])

-----------------------------------------------------------------------------
(* validate.py: the checks.  The batch a check receives is a record of the
   column names it has and its rows; a result is the dict the check returns,
   its message the f-string's template followed by the values put into it. *)

\* rows of the batches the checks are applied to
CheckRows ==
    { SaleRow(Str("T001"), Str("2024-01-15"), Str("P001"), Num(200), Num(2999),
              Str("C101"), Str("S01"), Num(0)),
      SaleRow(Str("T002"), Str("2024-01-16"), Str("P002"), Num(100), Num(999),
              Str("C102"), Str("S01"), Num(10)),
      SaleRow(Str("T001"), Str("2024-01-16"), Str("P002"), Str("3"), Num(999),
              Str("C102"), Str("S02"), Null),
      SaleRow(Str("T004"), Str("15/01/2024"), Str("P999"), Str("abc"), Str("n/a"),
              Str("C101"), Str("S01"), Str("x")),
      SaleRow(Null, Null, Null, Null, Null, Null, Null, Null),
      \* quantity, unit price and discount out of range
      SaleRow(Str("T010"), Str("2024-01-17"), Str("P001"), Num(-500), Num(0),
              Str("C101"), Str("S02"), Num(150)),
      \* unit price at the lower bound, discount at the upper bound
      SaleRow(Str("T011"), Str("2024-01-17"), Str("P002"), Num(1000), Num(1),
              Str("C102"), Str("S01"), Num(100)) }

CheckBatches == UNION {[1..n -> CheckRows] : n \in 0..MaxRows}

\* the columns the batch has: all of them, or some missing
CheckColumnSets ==
    { SalesColumns,
      SalesColumns \ {"transaction_id"},
      SalesColumns \ {"quantity", "discount_pct"},
      SalesColumns \ {"date", "product_id", "unit_price"} }

CheckFrames ==
    { [columns |-> cs,
       rows |-> [i \in DOMAIN b |-> [col \in cs |-> b[i][col]]]] :
         cs \in CheckColumnSets, b \in CheckBatches }

\* [col for col in required if col not in df.columns]
MissingColumns(df, required) ==
    SelectSeq(required, LAMBDA col : col \notin df.columns)

\* check_required_columns(df, required)
check_required_columns(df, required) ==
    LET missing == MissingColumns(df, required)
    IN  IF Len(missing) > 0
        THEN [passed |-> FALSE,
              message |-> <<"Missing required columns: {}", missing>>]
        ELSE [passed |-> TRUE, message |-> <<"All required columns present">>]

\* int(df[col].isna().sum())
NullCount(df, col) == Cardinality({i \in Indices(df.rows) : IsNa(df.rows[i][col])})

\* check_no_nulls(df, columns)
check_no_nulls(df, columns) ==
    LET null_counts == [col \in columns \cap df.columns |-> NullCount(df, col)]
        problem_cols == {col \in DOMAIN null_counts : null_counts[col] > 0}
    IN  IF problem_cols /= {}
        THEN [passed |-> FALSE,
              message |-> <<"Null values found: {}", problem_cols>>,
              null_counts |-> null_counts]
        ELSE [passed |-> TRUE,
              message |-> <<"No nulls in required columns">>,
              null_counts |-> null_counts]

\* df.duplicated(subset=[col], keep=False): an equal key occurs elsewhere
DuplicatedKeepNone(rows, col, i) ==
    \E j \in Indices(rows) : j /= i /\ rows[j][col] = rows[i][col]

\* the key of every row flagged as a duplicate, without the .unique()
DuplicateOccurrences(rows, key) ==
    LET dup == TakeFrom(rows, {i \in Indices(rows) : DuplicatedKeepNone(rows, key, i)}, 1)
    IN  [g \in Indices(dup) |-> dup[g][key]]

\* df[df.duplicated(subset=[key], keep=False)][key].unique()
DuplicateValues(rows, key) ==
    LET dup == TakeFrom(rows, {i \in Indices(rows) : DuplicatedKeepNone(rows, key, i)}, 1)
        uniq == DropDuplicates(dup, key)
    IN  [g \in Indices(uniq) |-> uniq[g][key]]

\* check_no_duplicates(df, key_column)
check_no_duplicates(df, key_column) ==
    IF key_column \notin df.columns
    THEN [passed |-> FALSE, message |-> <<"Column '{}' not found", key_column>>]
    ELSE LET duplicates == DuplicateValues(df.rows, key_column)
         IN  IF Len(duplicates) > 0
             THEN [passed |-> FALSE,
                   message |-> <<"Duplicate values in '{}': {}", key_column>>,
                   duplicate_values |-> duplicates]
             ELSE [passed |-> TRUE,
                   message |-> <<"No duplicates in '{}'", key_column>>,
                   duplicate_values |-> <<>>]

\* an out-of-range test with exclusive bounds and missing values counted
OutOfRangeExclusive(rows, column, min_val, max_val) ==
    {i \in Indices(rows) :
        LET v == ToNumeric(rows[i][column])
        IN  IsNa(v) \/ Val(v) <= min_val \/ Val(v) >= max_val}

\* series[(series < min_val) | (series > max_val)] of the coerced column: a
\* comparison with NaN is false
OutOfRange(rows, column, min_val, max_val) ==
    {i \in Indices(rows) :
        LET v == ToNumeric(rows[i][column])
        IN  ~IsNa(v) /\ (Val(v) < min_val \/ Val(v) > max_val)}

\* check_numeric_range(df, column, min_val, max_val)
check_numeric_range(df, column, min_val, max_val) ==
    IF column \notin df.columns
    THEN [passed |-> FALSE, message |-> <<"Column '{}' not found", column>>]
    ELSE LET out_of_range == OutOfRange(df.rows, column, min_val, max_val)
         IN  IF Cardinality(out_of_range) > 0
             THEN [passed |-> FALSE,
                   message |-> <<"'{}' has {} value(s) outside [{}, {}]", column>>,
                   out_of_range_count |-> Cardinality(out_of_range)]
             ELSE [passed |-> TRUE,
                   message |-> <<"'{}' values are within [{}, {}]", column>>,
                   out_of_range_count |-> 0]

\* check_date_format(df, column, fmt="%Y-%m-%d")
check_date_format(df, column) ==
    IF column \notin df.columns
    THEN [passed |-> FALSE, message |-> <<"Column '{}' not found", column>>]
    ELSE LET invalid_count ==
                 Cardinality({i \in Indices(df.rows) :
                                 IsNa(ToDatetime(df.rows[i][column]))})
         IN  IF invalid_count > 0
             THEN [passed |-> FALSE,
                   message |-> <<"'{}' has {} value(s) not matching format '{}'", column>>,
                   invalid_count |-> invalid_count]
             ELSE [passed |-> TRUE,
                   message |-> <<"All '{}' values match format '{}'", column>>,
                   invalid_count |-> 0]

\* the arguments run_sales_validation gives the checks
NoNullsArgs == {{"transaction_id"}, {"product_id"}}
NoDuplicatesArgs == {"transaction_id"}
NumericRangeArgs ==
    { <<"quantity", 1 * Scale, 10000 * Scale>>,
      <<"unit_price", 100, 100000 * Scale>>,
      <<"discount_pct", 0, 1 * Scale>> }
DateFormatArgs == {"date"}

\* the bounds the tests give check_numeric_range: [0, 100]
TestRangeArgs == { <<"quantity", 0, 100 * Scale>> }

\* the columns run_sales_validation requires
RequiredColumns ==
    <<"transaction_id", "date", "product_id", "quantity", "unit_price",
      "store_id", "discount_pct">>

\* the dict literal of run_sales_validation: every check is called, in this
\* order, whatever the others return
SalesChecks(df) ==
    << [name |-> "required_columns",
        result |-> check_required_columns(df, RequiredColumns)],
       [name |-> "no_duplicate_transactions",
        result |-> check_no_duplicates(df, "transaction_id")],
       [name |-> "no_null_transaction_ids",
        result |-> check_no_nulls(df, {"transaction_id"})],
       [name |-> "no_null_product_ids",
        result |-> check_no_nulls(df, {"product_id"})],
       [name |-> "valid_quantity",
        result |-> check_numeric_range(df, "quantity", 1 * Scale, 10000 * Scale)],
       [name |-> "valid_unit_price",
        result |-> check_numeric_range(df, "unit_price", 100, 100000 * Scale)],
       [name |-> "valid_discount",
        result |-> check_numeric_range(df, "discount_pct", 0, 1 * Scale)],
       [name |-> "valid_date_format",
        result |-> check_date_format(df, "date")] >>

\* the results up to the first failed check
UpToFirstFailure(results) ==
    LET failed == {i \in DOMAIN results : ~results[i].result.passed}
    IN  IF failed = {} THEN results
        ELSE SubSeq(results, 1, CHOOSE i \in failed : \A j \in failed : i <= j)

\* a validation that stops at the first failed check
run_sales_validation_short_circuit(df) == UpToFirstFailure(SalesChecks(df))

\* the summary run_sales_validation logs: it reads passed and message of
\* every result
LoggedSummary(results) ==
    [i \in DOMAIN results |->
        <<IF results[i].result.passed THEN "PASS" ELSE "FAIL",
          results[i].name, results[i].result.message>>]

\* run_sales_validation(df): the mapping from check name to result, in
\* insertion order
run_sales_validation(df) == SalesChecks(df)

-----------------------------------------------------------------------------
(* extract.py and load.py, as far as run_pipeline depends on them.  A file is
   what extraction asks of its path: whether it exists and, for the JSON
   file, whether its top level is a list. *)

SalesFiles == {[exists |-> FALSE], [exists |-> TRUE]}

ProductsFiles ==
    { [exists |-> FALSE, is_list |-> FALSE],
      [exists |-> TRUE, is_list |-> FALSE],
      [exists |-> TRUE, is_list |-> TRUE] }

\* a call that raised
Raised(exception) == [ok |-> FALSE, rows |-> <<>>, error |-> exception]

\* a call that returned a batch
Returned(rows) == [ok |-> TRUE, rows |-> rows, error |-> ""]

\* extract_csv(filepath): content is what pd.read_csv reads from the file
extract_csv(file, content) ==
    IF ~file.exists THEN Raised("FileNotFoundError") ELSE Returned(content)

\* an extract_json that builds a batch from any JSON container
extract_json_any_container(file, content) ==
    IF ~file.exists THEN Raised("FileNotFoundError") ELSE Returned(content)

\* extract_json(filepath): content is the list of records of the file
extract_json(file, content) ==
    IF ~file.exists THEN Raised("FileNotFoundError")
    ELSE IF ~file.is_list THEN Raised("ValueError")
    ELSE Returned(content)

\* load_to_sqlite(df, table_name, db_path): the table is replaced by df
load_to_sqlite(outputs, df, table_name) ==
    Append(outputs, [kind |-> "table", name |-> table_name, rows |-> df.rows])

\* load_to_csv(df, filepath)
load_to_csv(outputs, df, filepath) ==
    Append(outputs, [kind |-> "csv", name |-> filepath, rows |-> df.rows])

\* the caller's batch if the stage assigned its columns in place
CallerBatchInPlace(df, worked) == worked

\* the batch the caller passed to a stage, after the call: a stage that
\* assigns columns does so on df.copy(), the others build a new batch
CallerBatch(df, worked) == df

-----------------------------------------------------------------------------
(* pipeline.py: the stages of run_pipeline, one action each *)

Init ==
    /\ sales_file \in SalesFiles
    /\ products_file \in ProductsFiles
    /\ raw_sales = <<>>
    /\ raw_products = <<>>
    /\ pc = "start"
    /\ raised_in = ""
    /\ error = ""
    /\ validation_results = <<>>
    /\ clean_sales_df = NoFrame
    /\ reclean_sales_df = NoFrame
    /\ clean_products_df = NoFrame
    /\ merged_df = NoFrame
    /\ enriched_df = NoFrame
    /\ category_summary = NoFrame
    /\ store_summary = NoFrame
    /\ daily_summary = NoFrame
    /\ written = <<>>
    /\ check_input = NoFrame
    /\ check_result = <<>>

\* raw_sales = extract_csv(RAW_SALES_CSV)
ExtractCsv ==
    /\ pc = "start"
    /\ \E content \in SalesBatches :
          LET call == extract_csv(sales_file, content)
          IN  /\ raw_sales' = call.rows
              /\ pc' = IF call.ok THEN "extract_csv" ELSE "raised"
              /\ raised_in' = IF call.ok THEN raised_in ELSE "extract_csv"
              /\ error' = call.error
    /\ UNCHANGED <<sales_file, products_file, raw_products, validation_results,
                   clean_sales_df, reclean_sales_df, clean_products_df,
                   merged_df, enriched_df, category_summary, store_summary,
                   daily_summary, written, check_input, check_result>>

\* raw_products = extract_json(RAW_PRODUCTS_JSON)
ExtractJson ==
    /\ pc = "extract_csv"
    /\ \E content \in ProductBatches :
          LET call == extract_json(products_file, content)
          IN  /\ raw_products' = call.rows
              /\ pc' = IF call.ok THEN "extracted" ELSE "raised"
              /\ raised_in' = IF call.ok THEN raised_in ELSE "extract_json"
              /\ error' = call.error
    /\ UNCHANGED <<sales_file, products_file, raw_sales, validation_results,
                   clean_sales_df, reclean_sales_df, clean_products_df,
                   merged_df, enriched_df, category_summary, store_summary,
                   daily_summary, written, check_input, check_result>>

\* validation_results = run_sales_validation(raw_sales); the failures are
\* logged and the run goes on
Validate ==
    /\ pc = "extracted"
    /\ validation_results' =
          run_sales_validation([columns |-> SalesColumns, rows |-> raw_sales])
    /\ pc' = "validated"
    /\ UNCHANGED <<sales_file, products_file, raw_sales, raw_products, raised_in,
                   error, clean_sales_df, reclean_sales_df, clean_products_df,
                   merged_df, enriched_df, category_summary, store_summary,
                   daily_summary, written, check_input, check_result>>

\* clean_sales_df = clean_sales(raw_sales)
CleanSales ==
    /\ pc = "validated"
    /\ clean_sales_df' = clean_sales(raw_sales)
    /\ raw_sales' = CallerBatch(raw_sales, clean_sales_df'.rows)
    /\ pc' = IF clean_sales_df'.ok THEN "clean_sales" ELSE "raised"
    /\ raised_in' = IF clean_sales_df'.ok THEN raised_in ELSE "clean_sales"
    /\ error' = IF clean_sales_df'.ok THEN error ELSE "TypeError"
    /\ UNCHANGED <<sales_file, products_file, raw_products, validation_results,
                   reclean_sales_df, clean_products_df, merged_df, enriched_df,
                   category_summary, store_summary, daily_summary, written,
                   check_input, check_result>>

\* clean_sales applied to its own output
CleanSalesAgain ==
    /\ pc = "clean_sales"
    /\ reclean_sales_df' = clean_sales(clean_sales_df.rows)
    /\ pc' = IF reclean_sales_df'.ok THEN "recleaned" ELSE "raised"
    /\ raised_in' = IF reclean_sales_df'.ok THEN raised_in ELSE "clean_sales"
    /\ error' = IF reclean_sales_df'.ok THEN error ELSE "TypeError"
    /\ UNCHANGED <<sales_file, products_file, raw_sales, raw_products,
                   validation_results, clean_sales_df, clean_products_df,
                   merged_df, enriched_df, category_summary, store_summary,
                   daily_summary, written, check_input, check_result>>

\* clean_products_df = clean_products(raw_products)
CleanProducts ==
    /\ pc = "clean_sales"
    /\ clean_products_df' = clean_products(raw_products)
    /\ raw_products' = CallerBatch(raw_products, clean_products_df'.rows)
    /\ pc' = "clean_products"
    /\ UNCHANGED <<sales_file, products_file, raw_sales, raised_in, error,
                   validation_results, clean_sales_df, reclean_sales_df,
                   merged_df, enriched_df, category_summary, store_summary,
                   daily_summary, written, check_input, check_result>>

\* enriched_df = merge_sales_products(clean_sales_df, clean_products_df)
MergeSalesProducts ==
    /\ pc = "clean_products"
    /\ merged_df' = merge_sales_products(clean_sales_df.rows, clean_products_df.rows)
    /\ pc' = "merged"
    /\ UNCHANGED <<sales_file, products_file, raw_sales, raw_products, raised_in,
                   error, validation_results, clean_sales_df, reclean_sales_df,
                   clean_products_df, enriched_df, category_summary,
                   store_summary, daily_summary, written, check_input,
                   check_result>>

\* enriched_df = calculate_metrics(enriched_df)
CalculateMetrics ==
    /\ pc = "merged"
    /\ enriched_df' = calculate_metrics(merged_df.rows)
    /\ merged_df' = Ok(CallerBatch(merged_df.rows, enriched_df'.rows))
    /\ pc' = "metrics"
    /\ UNCHANGED <<sales_file, products_file, raw_sales, raw_products, raised_in,
                   error, validation_results, clean_sales_df, reclean_sales_df,
                   clean_products_df, category_summary, store_summary,
                   daily_summary, written, check_input, check_result>>

\* category_summary = aggregate_by_category(enriched_df)
AggregateByCategory ==
    /\ pc = "metrics"
    /\ category_summary' = aggregate_by_category(enriched_df.rows)
    /\ pc' = "by_category"
    /\ UNCHANGED <<sales_file, products_file, raw_sales, raw_products, raised_in,
                   error, validation_results, clean_sales_df, reclean_sales_df,
                   clean_products_df, merged_df, enriched_df, store_summary,
                   daily_summary, written, check_input, check_result>>

\* store_summary = aggregate_by_store(enriched_df)
AggregateByStore ==
    /\ pc = "by_category"
    /\ store_summary' = aggregate_by_store(enriched_df.rows)
    /\ pc' = "by_store"
    /\ UNCHANGED <<sales_file, products_file, raw_sales, raw_products, raised_in,
                   error, validation_results, clean_sales_df, reclean_sales_df,
                   clean_products_df, merged_df, enriched_df, category_summary,
                   daily_summary, written, check_input, check_result>>

\* daily_summary = aggregate_by_date(enriched_df)
AggregateByDate ==
    /\ pc = "by_store"
    /\ daily_summary' = aggregate_by_date(enriched_df.rows)
    /\ pc' = "transformed"
    /\ UNCHANGED <<sales_file, products_file, raw_sales, raw_products, raised_in,
                   error, validation_results, clean_sales_df, reclean_sales_df,
                   clean_products_df, merged_df, enriched_df, category_summary,
                   store_summary, check_input, check_result, written>>

\* the tables and files of STAGE 4, in the order run_pipeline writes them
LoadAll ==
    LET t1 == load_to_sqlite(written, enriched_df, "sales")
        t2 == load_to_sqlite(t1, clean_products_df, "products")
        t3 == load_to_sqlite(t2, category_summary, "summary_by_category")
        t4 == load_to_sqlite(t3, store_summary, "summary_by_store")
        t5 == load_to_sqlite(t4, daily_summary, "summary_by_date")
        c1 == load_to_csv(t5, enriched_df, "sales_enriched.csv")
        c2 == load_to_csv(c1, category_summary, "summary_by_category.csv")
        c3 == load_to_csv(c2, store_summary, "summary_by_store.csv")
    IN  load_to_csv(c3, daily_summary, "summary_by_date.csv")

\* STAGE 4: LOAD
Load ==
    /\ pc = "transformed"
    /\ written' = LoadAll
    /\ pc' = "loaded"
    /\ UNCHANGED <<sales_file, products_file, raw_sales, raw_products, raised_in,
                   error, validation_results, clean_sales_df, reclean_sales_df,
                   clean_products_df, merged_df, enriched_df, category_summary,
                   store_summary, daily_summary, check_input, check_result>>

Next ==
    \/ ExtractCsv
    \/ ExtractJson
    \/ Validate
    \/ CleanSales
    \/ CleanSalesAgain
    \/ CleanProducts
    \/ MergeSalesProducts
    \/ CalculateMetrics
    \/ AggregateByCategory
    \/ AggregateByStore
    \/ AggregateByDate
    \/ Load

Spec == Init /\ [][Next]_vars

-----------------------------------------------------------------------------
(* clean_products on its own, applied to catalogues of JSON records whose
   fields hold strings, numbers and nulls *)

\* records of a products file
ProductRows ==
    { ProductRow(Str("P001"), Str("Wireless Mouse"), Str("Electronics"),
                 Str("TechGear"), Num(1250)),
      ProductRow(Str(" P002"), Str("Notebook (A5)"), Str("Stationery  "),
                 Str(" WriteWell "), Str("12.50")),
      \* a numeric identifier and a numeric brand
      ProductRow(Num(300), Str("Desk Lamp"), Str("Electronics"),
                 Num(700), Num(325)),
      ProductRow(Str("P004"), Null, Str(" Electronics "),
                 Str("TechGear"), Str("n/a")),
      ProductRow(Num(500), Str("Desk Lamp"), Null, Num(700), Null) }

ProductInputs == UNION {[1..n -> ProductRows] : n \in 0..MaxRows}

ProdInit ==
    /\ raw_products \in ProductInputs
    /\ pc = "products"
    /\ sales_file = [exists |-> FALSE]
    /\ products_file = [exists |-> TRUE, is_list |-> TRUE]
    /\ raw_sales = <<>>
    /\ raised_in = ""
    /\ error = ""
    /\ validation_results = <<>>
    /\ written = <<>>
    /\ clean_sales_df = NoFrame
    /\ reclean_sales_df = NoFrame
    /\ clean_products_df = NoFrame
    /\ merged_df = NoFrame
    /\ enriched_df = NoFrame
    /\ category_summary = NoFrame
    /\ store_summary = NoFrame
    /\ daily_summary = NoFrame
    /\ check_input = NoFrame
    /\ check_result = <<>>

\* one call of clean_products
CleanProductsCall ==
    /\ pc = "products"
    /\ clean_products_df' = clean_products(raw_products)
    /\ raw_products' = CallerBatch(raw_products, clean_products_df'.rows)
    /\ pc' = "products_cleaned"
    /\ UNCHANGED <<sales_file, products_file, raw_sales, raised_in, error,
                   validation_results, written, clean_sales_df,
                   reclean_sales_df, merged_df, enriched_df, category_summary,
                   store_summary, daily_summary, check_input, check_result>>

ProdNext == CleanProductsCall

ProdSpec == ProdInit /\ [][ProdNext]_vars

-----------------------------------------------------------------------------
(* validate.py: calls of the checks, one action each *)

ValInit ==
    /\ check_input \in CheckFrames
    /\ check_result = <<>>
    /\ pc = "check"
    /\ sales_file = [exists |-> FALSE]
    /\ products_file = [exists |-> FALSE, is_list |-> FALSE]
    /\ raw_sales = <<>>
    /\ raw_products = <<>>
    /\ raised_in = ""
    /\ error = ""
    /\ validation_results = <<>>
    /\ written = <<>>
    /\ clean_sales_df = NoFrame
    /\ reclean_sales_df = NoFrame
    /\ clean_products_df = NoFrame
    /\ merged_df = NoFrame
    /\ enriched_df = NoFrame
    /\ category_summary = NoFrame
    /\ store_summary = NoFrame
    /\ daily_summary = NoFrame

PipelineVars ==
    <<sales_file, products_file, raw_sales, raw_products, raised_in, error,
      validation_results, written, clean_sales_df, reclean_sales_df,
      clean_products_df, merged_df, enriched_df, category_summary,
      store_summary, daily_summary>>

\* one call of a check: the check, the columns it names, what it returns
CheckNoNulls ==
    /\ pc = "check"
    /\ \E columns \in NoNullsArgs :
          check_result' = [check |-> "check_no_nulls", named |-> columns,
                           result |-> check_no_nulls(check_input, columns)]
    /\ pc' = "checked"
    /\ UNCHANGED <<check_input, PipelineVars>>

CheckNoDuplicates ==
    /\ pc = "check"
    /\ \E key_column \in NoDuplicatesArgs :
          check_result' = [check |-> "check_no_duplicates", named |-> {key_column},
                           result |-> check_no_duplicates(check_input, key_column)]
    /\ pc' = "checked"
    /\ UNCHANGED <<check_input, PipelineVars>>

CheckNumericRange ==
    /\ pc = "check"
    /\ \E a \in NumericRangeArgs \cup TestRangeArgs :
          check_result' = [check |-> "check_numeric_range", named |-> {a[1]},
                           min_val |-> a[2], max_val |-> a[3],
                           result |-> check_numeric_range(check_input, a[1], a[2], a[3])]
    /\ pc' = "checked"
    /\ UNCHANGED <<check_input, PipelineVars>>

CheckDateFormat ==
    /\ pc = "check"
    /\ \E column \in DateFormatArgs :
          check_result' = [check |-> "check_date_format", named |-> {column},
                           result |-> check_date_format(check_input, column)]
    /\ pc' = "checked"
    /\ UNCHANGED <<check_input, PipelineVars>>

\* one call of run_sales_validation
RunSalesValidation ==
    /\ pc = "check"
    /\ check_result' = [check |-> "run_sales_validation", named |-> {},
                        result |-> run_sales_validation(check_input),
                        logged |-> LoggedSummary(run_sales_validation(check_input))]
    /\ pc' = "checked"
    /\ UNCHANGED <<check_input, PipelineVars>>

ValNext ==
    \/ RunSalesValidation
    \/ CheckNoNulls
    \/ CheckNoDuplicates
    \/ CheckNumericRange
    \/ CheckDateFormat

ValSpec == ValInit /\ [][ValNext]_vars

\* C5: a check asked about a column the batch does not have returns
\* passed = False and a message that names the missing column.
C5_MissingColumnFails ==
    (pc = "checked" /\ check_result.named \ check_input.columns /= {}) =>
        /\ check_result.result.passed = FALSE
        /\ Len(check_result.result.message) >= 2
        /\ \E a \in 2..Len(check_result.result.message) :
              check_result.result.message[a] \in check_result.named \ check_input.columns

-----------------------------------------------------------------------------
(* Claims about the transform chain *)

\* the stages that follow a stage, in the order of run_pipeline
AfterMerge == {"merged", "metrics", "by_category", "by_store", "transformed", "loaded"}
AfterMetrics == {"metrics", "by_category", "by_store", "transformed", "loaded"}
AfterByCategory == {"by_category", "by_store", "transformed", "loaded"}

\* the stages of the transform chain
TransformStages ==
    {"clean_sales", "clean_products", "merge_sales_products", "calculate_metrics",
     "aggregate_by_category", "aggregate_by_store", "aggregate_by_date"}

\* C1: dirty cell values never make a stage of the chain clean_sales,
\* clean_products, merge_sales_products, calculate_metrics, aggregate_by_*
\* raise: every stage returns a batch.
C1_NeverRaisesOnDirtyData == raised_in \notin TransformStages

\* no product_id value (a missing one included) occurs twice in the catalogue
UniqueProductIds(products) ==
    \A i, j \in Indices(products) :
        products[i]["product_id"] = products[j]["product_id"] => i = j

HasMatch(sale, products) ==
    \E j \in Indices(products) : products[j]["product_id"] = sale["product_id"]

\* row i of the merge is sale i, and carries missing product columns when the
\* catalogue has no product of its product_id
JoinComplete(sales, products, merged) ==
    /\ Len(merged) = Len(sales)
    /\ \A i \in Indices(sales) :
        /\ \A col \in SalesColumns : merged[i][col] = sales[i][col]
        /\ ~HasMatch(sales[i], products) =>
              \A col \in MergedColumns : IsNa(merged[i][col])

\* C2 as stated: for every catalogue, merge_sales_products returns every
\* sales row exactly once, unmatched rows with missing product columns.
C2_JoinCompleteAnyCatalogue ==
    pc \in AfterMerge =>
        JoinComplete(clean_sales_df.rows, clean_products_df.rows, merged_df.rows)

\* C2 amended: for every catalogue in which no product_id occurs twice,
\* merge_sales_products returns every sales row exactly once, unmatched rows
\* with missing product columns.
C2_JoinCompleteUniqueCatalogue ==
    (pc \in AfterMerge /\ UniqueProductIds(clean_products_df.rows)) =>
        JoinComplete(clean_sales_df.rows, clean_products_df.rows, merged_df.rows)

C2_Witness ==
    /\ pc = "merged"
    /\ UniqueProductIds(clean_products_df.rows)
    /\ Len(clean_sales_df.rows) >= 2
    /\ \E i \in Indices(clean_sales_df.rows) :
          ~HasMatch(clean_sales_df.rows[i], clean_products_df.rows)
    /\ \E i \in Indices(clean_sales_df.rows) :
          /\ HasMatch(clean_sales_df.rows[i], clean_products_df.rows)
          /\ merged_df.rows[i]["name"] /= Null

\* the values of a column, a missing value being one of them
ColumnValues(df, col) == {df[i][col] : i \in Indices(df)}

\* a summary has exactly one row per value of the key, missing included
OneRowPerKey(df, summary, key) ==
    /\ ColumnValues(summary, key) = ColumnValues(df, key)
    /\ Len(summary) = Cardinality(ColumnValues(df, key))

\* C3: each aggregate_by_* returns exactly one row per distinct value of its
\* grouping key, a missing key forming a group of its own.
C3_OneRowPerKeyNullIncluded ==
    /\ pc \in AfterByCategory =>
          OneRowPerKey(enriched_df.rows, category_summary.rows, "category")
    /\ pc \in {"by_store", "transformed"} =>
          OneRowPerKey(enriched_df.rows, store_summary.rows, "store_id")
    /\ pc = "transformed" =>
          OneRowPerKey(enriched_df.rows, daily_summary.rows, "date")

\* the sum of a column over all rows of a batch (the rows where it is known)
RECURSIVE ColumnTotal(_, _, _)
ColumnTotal(df, col, i) ==
    IF i > Len(df) THEN 0
    ELSE (IF IsNa(df[i][col]) THEN 0 ELSE Val(df[i][col]))
         + ColumnTotal(df, col, i + 1)

\* C4: the total_net_revenue of the category summary add up to the
\* net_revenue of the metrics batch, up to half a cent per group.
C4_NetRevenueConserved ==
    pc \in AfterByCategory =>
        Abs(ColumnTotal(category_summary.rows, "total_net_revenue", 1)
            - ColumnTotal(enriched_df.rows, "net_revenue", 1))
          <= 50 * Len(category_summary.rows)

\* C6: clean_sales applied to its own output returns the same rows, in the
\* same order, with the same values.
C6_CleanSalesIdempotent ==
    pc = "recleaned" =>
        /\ reclean_sales_df.ok
        /\ reclean_sales_df.rows = clean_sales_df.rows

C6_Witness ==
    /\ pc = "recleaned"
    /\ Len(clean_sales_df.rows) < Len(raw_sales)
    /\ \E i \in Indices(clean_sales_df.rows) :
          /\ clean_sales_df.rows[i]["date"] = Null
          /\ clean_sales_df.rows[i]["customer_id"] = Str("UNKNOWN")
          /\ clean_sales_df.rows[i]["quantity"] = Null
          /\ clean_sales_df.rows[i]["unit_price"] = NaN
          /\ clean_sales_df.rows[i]["discount_pct"] = Fix(0)
    /\ \E i \in Indices(clean_sales_df.rows) :
          /\ clean_sales_df.rows[i]["date"].t = "date"
          /\ clean_sales_df.rows[i]["quantity"].t = "Int64"

\* the first position at which a key occurs
FirstPosition(df, col, k) ==
    CHOOSE i \in Indices(df) :
        /\ df[i][col] = k
        /\ \A j \in Indices(df) : df[j][col] = k => i <= j

FirstPositions(df, col) == {FirstPosition(df, col, k) : k \in ColumnValues(df, col)}

\* the m-th smallest element of a set of positions
NthPosition(positions, m) ==
    CHOOSE p \in positions : Cardinality({q \in positions : q <= p}) = m

\* the columns clean_sales does not rewrite
UntouchedColumns == {"transaction_id", "product_id", "store_id"}

\* C7: the output of clean_sales has one row per distinct transaction_id of
\* the input, each the first row of its transaction_id, in the input's order.
C7_DedupKeepsFirst ==
    clean_sales_df.ok =>
        LET first == FirstPositions(raw_sales, "transaction_id")
        IN  /\ Len(clean_sales_df.rows)
                 = Cardinality(ColumnValues(raw_sales, "transaction_id"))
            /\ \A m \in Indices(clean_sales_df.rows) :
                  \A col \in UntouchedColumns :
                      clean_sales_df.rows[m][col]
                        = raw_sales[NthPosition(first, m)][col]

C7_Witness ==
    /\ clean_sales_df.ok
    /\ Len(raw_sales) = 3
    /\ Len(clean_sales_df.rows) = 2
    /\ raw_sales[1]["transaction_id"] = raw_sales[3]["transaction_id"]
    /\ raw_sales[1]["product_id"] /= raw_sales[3]["product_id"]
    /\ raw_sales[1]["transaction_id"] /= raw_sales[2]["transaction_id"]

\* C8: in calculate_metrics a missing quantity, unit_price or cost_price
\* makes every derived field that uses it missing, and profit_margin_pct is
\* missing whenever net_revenue is missing or zero, never infinite.
C8_NullPropagation ==
    pc \in AfterMetrics =>
        \A i \in Indices(enriched_df.rows) :
            LET r == enriched_df.rows[i]
            IN  /\ (IsNa(r["quantity"]) \/ IsNa(r["unit_price"])) =>
                      /\ IsNa(r["gross_revenue"])
                      /\ IsNa(r["discount_amount"])
                      /\ IsNa(r["net_revenue"])
                      /\ IsNa(r["profit"])
                /\ (IsNa(r["quantity"]) \/ IsNa(r["cost_price"])) =>
                      /\ IsNa(r["cost_total"])
                      /\ IsNa(r["profit"])
                /\ (IsNa(r["net_revenue"]) \/ r["net_revenue"].n = 0) =>
                      IsNa(r["profit_margin_pct"])
                /\ r["profit_margin_pct"].t /= "inf"

C8_Witness ==
    /\ pc = "metrics"
    /\ \E i \in Indices(enriched_df.rows) :
          /\ enriched_df.rows[i]["net_revenue"] = Fix(0)
          /\ enriched_df.rows[i]["profit"].t = "num"
          /\ enriched_df.rows[i]["profit"].n /= 0
          /\ IsNa(enriched_df.rows[i]["profit_margin_pct"])
    /\ \E i \in Indices(enriched_df.rows) :
          /\ ~IsNa(enriched_df.rows[i]["name"])
          /\ IsNa(enriched_df.rows[i]["cost_price"])
          /\ ~IsNa(enriched_df.rows[i]["net_revenue"])
          /\ IsNa(enriched_df.rows[i]["profit"])
    /\ \E i \in Indices(enriched_df.rows) :
          /\ IsNa(enriched_df.rows[i]["quantity"])
          /\ ~IsNa(enriched_df.rows[i]["unit_price"])

\* the total of a group when each missing value counts as 0, to two decimals
RECURSIVE ZeroedTotal(_, _, _, _, _)
ZeroedTotal(df, key, k, col, i) ==
    IF i > Len(df) THEN 0
    ELSE (IF df[i][key] = k /\ ~IsNa(df[i][col]) THEN Val(df[i][col]) ELSE 0)
         + ZeroedTotal(df, key, k, col, i + 1)

HasMissing(df, key, k, col) ==
    \E i \in Indices(df) : df[i][key] = k /\ IsNa(df[i][col])

\* no total of a summary row is the total that counts a missing net_revenue,
\* profit or quantity of its group as 0
NotSummedAsZero(df, summary, key) ==
    \A g \in Indices(summary) :
        LET k == summary[g][key]
        IN  /\ HasMissing(df, key, k, "net_revenue") =>
                  summary[g]["total_net_revenue"]
                    /= Fix(Round2(ZeroedTotal(df, key, k, "net_revenue", 1)))
            /\ HasMissing(df, key, k, "profit") =>
                  summary[g]["total_profit"]
                    /= Fix(Round2(ZeroedTotal(df, key, k, "profit", 1)))
            /\ HasMissing(df, key, k, "quantity") =>
                  summary[g]["total_units_sold"]
                    /= Int64(ZeroedTotal(df, key, k, "quantity", 1) \div Scale)

\* C9: a number that failed coercion is never treated as zero: it stays
\* missing in the metrics of its row, and no summary reports a total computed
\* as if a row of missing net_revenue, profit or quantity had contributed 0.
C9_MissingNeverCountedAsZero ==
    /\ pc \in AfterMetrics =>
          \A i \in Indices(enriched_df.rows) :
              LET r == enriched_df.rows[i]
              IN  /\ (IsNa(r["quantity"]) \/ IsNa(r["unit_price"])) =>
                        IsNa(r["net_revenue"])
                  /\ (IsNa(r["quantity"]) \/ IsNa(r["cost_price"])) =>
                        IsNa(r["profit"])
    /\ pc \in AfterByCategory =>
          NotSummedAsZero(enriched_df.rows, category_summary.rows, "category")
    /\ pc \in {"by_store", "transformed"} =>
          NotSummedAsZero(enriched_df.rows, store_summary.rows, "store_id")
    /\ pc = "transformed" =>
          NotSummedAsZero(enriched_df.rows, daily_summary.rows, "date")

\* the fields of a metrics row follow the formulas (values in 1/10000 units)
FormulasHold(r) ==
    LET q == r["quantity"].n
        gross == r["gross_revenue"].n
        net == r["net_revenue"].n
        profit == r["profit"].n
        margin == r["profit_margin_pct"].n
        whole == (Abs(profit) * 100) \div Abs(net)
    IN  /\ gross = q * r["unit_price"].n
        /\ r["discount_amount"].n * 100 = (gross \div 100) * r["discount_pct"].n
        /\ net = gross - r["discount_amount"].n
        /\ r["cost_total"].n = q * r["cost_price"].n
        /\ profit = net - r["cost_total"].n
        /\ r["profit_margin_pct"].t = "num"
        /\ margin % 100 = 0
        /\ (margin < 0) => ((profit < 0) /= (net < 0))
        /\ whole * Scale <= Abs(margin)
        /\ Abs(margin) <= (whole + 1) * Scale

\* C10: calculate_metrics computes gross_revenue, discount_amount,
\* net_revenue, cost_total, profit and the margin rounded to 2 decimals by
\* the formulas; 2 x 29.99 at cost 12.50 without discount gives 59.98, 59.98,
\* 25.00, 34.98 and 58.32.
C10_MetricsFormulas ==
    pc \in AfterMetrics =>
        \A i \in Indices(enriched_df.rows) :
            LET r == enriched_df.rows[i]
            IN  /\ (~IsNa(r["quantity"]) /\ ~IsNa(r["unit_price"])
                    /\ ~IsNa(r["cost_price"]) /\ r["net_revenue"].n /= 0) =>
                       FormulasHold(r)
                /\ (r["quantity"] = Int64(2) /\ r["unit_price"] = Num(2999)
                    /\ r["discount_pct"] = Num(0) /\ r["cost_price"] = Num(1250)) =>
                       /\ r["gross_revenue"] = Num(5998)
                       /\ r["discount_amount"] = Num(0)
                       /\ r["net_revenue"] = Num(5998)
                       /\ r["cost_total"] = Num(2500)
                       /\ r["profit"] = Num(3498)
                       /\ r["profit_margin_pct"] = Num(5832)

C10_Witness ==
    /\ pc = "metrics"
    /\ \E i \in Indices(enriched_df.rows) :
          /\ enriched_df.rows[i]["quantity"] = Int64(2)
          /\ enriched_df.rows[i]["unit_price"] = Num(2999)
          /\ enriched_df.rows[i]["discount_pct"] = Num(0)
          /\ enriched_df.rows[i]["cost_price"] = Num(1250)
          /\ enriched_df.rows[i]["profit_margin_pct"] = Num(5832)
    /\ \E i \in Indices(enriched_df.rows) :
          /\ enriched_df.rows[i]["discount_pct"] = Num(10)
          /\ enriched_df.rows[i]["discount_amount"] = Fix(9990)
          /\ enriched_df.rows[i]["profit_margin_pct"] = Num(6385)

-----------------------------------------------------------------------------
(* Claims about the checks of validate.py *)

\* the number of rows of the batch whose key is v
KeyOccurrences(rows, col, v) ==
    Cardinality({i \in Indices(rows) : rows[i][col] = v})

\* the key values that occur in more than one row
RepeatedKeys(rows, col) ==
    {v \in {rows[i][col] : i \in Indices(rows)} : KeyOccurrences(rows, col, v) > 1}

\* a call of check_no_duplicates on a key column the batch has
NoDuplicatesCalled ==
    /\ pc = "checked"
    /\ check_result.check = "check_no_duplicates"
    /\ check_result.named \subseteq check_input.columns

\* C11: check_no_duplicates on an existing key column passes exactly when no
\* key value occurs more than once, and duplicate_values lists every value
\* that occurs more than once, each once, and no value that occurs once.
C11_DuplicateValuesExact ==
    NoDuplicatesCalled =>
        LET key == CHOOSE k \in check_result.named : TRUE
            repeated == RepeatedKeys(check_input.rows, key)
            res == check_result.result
        IN  /\ res.passed <=> repeated = {}
            /\ {res.duplicate_values[g] : g \in DOMAIN res.duplicate_values} = repeated
            /\ Len(res.duplicate_values) = Cardinality(repeated)

\* keys [T001, T002, T001]: failure, T001 the sole duplicate value
C11_Witness ==
    /\ NoDuplicatesCalled
    /\ Len(check_input.rows) = 3
    /\ check_input.rows[1]["transaction_id"] = Str("T001")
    /\ check_input.rows[2]["transaction_id"] = Str("T002")
    /\ check_input.rows[3]["transaction_id"] = Str("T001")
    /\ ~check_result.result.passed
    /\ check_result.result.duplicate_values = <<Str("T001")>>

\* a call of check_numeric_range on a column the batch has
NumericRangeCalled ==
    /\ pc = "checked"
    /\ check_result.check = "check_numeric_range"
    /\ check_result.named \subseteq check_input.columns

\* the cell is a number, or a string that reads as one
IsNumber(c) ==
    \/ c.t \in {"num", "Int64"}
    \/ c.t = "str" /\ ParseNumber(c.s) >= 0

\* the number the cell holds, in 1/10000
NumberOf(c) ==
    CASE c.t = "num" -> c.n
      [] c.t = "Int64" -> c.n * Scale
      [] OTHER -> ParseNumber(c.s)

\* the rows whose value is a number below min_val or above max_val
Violations(rows, column, min_val, max_val) ==
    {i \in Indices(rows) :
        /\ IsNumber(rows[i][column])
        /\ \/ NumberOf(rows[i][column]) < min_val
           \/ NumberOf(rows[i][column]) > max_val}

\* C12: check_numeric_range on an existing column counts the numeric values
\* below min or above max (bounds inclusive); null and non-numeric values
\* are not counted; passed is True exactly when the count is 0.
C12_OutOfRangeCount ==
    NumericRangeCalled =>
        LET column == CHOOSE k \in check_result.named : TRUE
            count == Cardinality(Violations(check_input.rows, column,
                                            check_result.min_val, check_result.max_val))
        IN  /\ check_result.result.out_of_range_count = count
            /\ check_result.result.passed <=> count = 0

\* quantities [1, -5, 10] against [0, 100]: exactly one violation
C12_Witness ==
    /\ NumericRangeCalled
    /\ check_result.named = {"quantity"}
    /\ check_result.min_val = 0
    /\ check_result.max_val = 100 * Scale
    /\ Len(check_input.rows) = 3
    /\ check_input.rows[1]["quantity"] = Num(100)
    /\ check_input.rows[2]["quantity"] = Num(-500)
    /\ check_input.rows[3]["quantity"] = Num(1000)
    /\ ~check_result.result.passed
    /\ check_result.result.out_of_range_count = 1

\* a value at a bound and a value that is no number, neither counted
C12_WitnessBounds ==
    /\ NumericRangeCalled
    /\ check_result.named = {"discount_pct"}
    /\ \E i \in Indices(check_input.rows) : check_input.rows[i]["discount_pct"] = Num(100)
    /\ \E i \in Indices(check_input.rows) : check_input.rows[i]["discount_pct"] = Str("x")
    /\ check_result.result.passed

\* the names of the checks, in the order run_sales_validation declares them
CheckNames ==
    <<"required_columns", "no_duplicate_transactions", "no_null_transaction_ids",
      "no_null_product_ids", "valid_quantity", "valid_unit_price",
      "valid_discount", "valid_date_format">>

\* a call of run_sales_validation
SalesValidationCalled ==
    /\ pc = "checked"
    /\ check_result.check = "run_sales_validation"

\* C13: run_sales_validation returns, for every raw batch and whichever
\* columns it lacks, the results of all eight checks under their names in
\* declaration order, each with a boolean passed and a message.
C13_AllEightChecks ==
    SalesValidationCalled =>
        LET results == check_result.result
        IN  /\ [i \in DOMAIN results |-> results[i].name] = CheckNames
            /\ \A i \in DOMAIN results :
                  /\ {"passed", "message"} \subseteq DOMAIN results[i].result
                  /\ results[i].result.passed \in BOOLEAN
                  /\ Len(results[i].result.message) >= 1
            /\ Len(check_result.logged) = Len(CheckNames)

\* a batch without some columns: the first check fails, later ones pass
C13_Witness ==
    /\ SalesValidationCalled
    /\ check_input.columns /= SalesColumns
    /\ Len(check_input.rows) > 0
    /\ ~check_result.result[1].result.passed
    /\ ~check_result.result[5].result.passed
    /\ check_result.result[8].result.passed

-----------------------------------------------------------------------------
(* Claims about the run of the pipeline *)

\* the positions of run_pipeline after the extract stage, and after validation
AfterExtract ==
    {"extracted", "validated", "clean_sales", "recleaned", "clean_products",
     "merged", "metrics", "by_category", "by_store", "transformed", "loaded"}
AfterValidate == AfterExtract \ {"extracted"}

\* the batches the stages return
StageOutputs ==
    <<clean_sales_df, reclean_sales_df, clean_products_df, merged_df,
      enriched_df, category_summary, store_summary, daily_summary>>

NothingAfterExtract ==
    /\ validation_results = <<>>
    /\ \A i \in DOMAIN StageOutputs : StageOutputs[i] = NoFrame
    /\ written = <<>>

\* C15: a missing sales or products file raises FileNotFoundError, a products
\* file whose top level is not a list raises ValueError, and a run whose
\* extraction raised has validated, transformed and written nothing.
C15_StructuralFailuresFatal ==
    /\ (pc /= "start" /\ ~sales_file.exists) =>
          pc = "raised" /\ raised_in = "extract_csv" /\ error = "FileNotFoundError"
    /\ (pc \notin {"start", "extract_csv"} /\ sales_file.exists
           /\ ~products_file.exists) =>
          pc = "raised" /\ raised_in = "extract_json" /\ error = "FileNotFoundError"
    /\ (pc \notin {"start", "extract_csv"} /\ sales_file.exists
           /\ products_file.exists /\ ~products_file.is_list) =>
          pc = "raised" /\ raised_in = "extract_json" /\ error = "ValueError"
    /\ raised_in \in {"extract_csv", "extract_json"} => NothingAfterExtract

\* the sales file was read, the products file is not a list: ValueError
C15_Witness ==
    /\ pc = "raised"
    /\ raised_in = "extract_json"
    /\ error = "ValueError"
    /\ Len(raw_sales) > 0
    /\ written = <<>>

\* C16: whatever the checks report, the run goes from Validate through the
\* Transform stage to Load: after extraction no stage ends the run, the
\* stages come in the order Extract, Validate, Transform, Load, and cleaning
\* receives the raw batches as they were extracted.
C16_ValidateDoesNotBlock ==
    /\ pc = "raised" => raised_in \in {"extract_csv", "extract_json"}
    /\ pc \in AfterValidate => Len(validation_results) = 8
    /\ clean_sales_df /= NoFrame => pc \in AfterValidate
    /\ clean_sales_df.ok => clean_sales_df = clean_sales(raw_sales)
    /\ clean_products_df.ok => clean_products_df = clean_products(raw_products)
    /\ written /= <<>> <=> pc = "loaded"

\* the same, the runs that clean_sales ends left aside
C16_ExceptWhereCleanSalesRaises ==
    raised_in /= "clean_sales" => C16_ValidateDoesNotBlock

\* a run that loaded its outputs although checks failed
C16_LoadedAfterFailedChecks ==
    /\ pc = "loaded"
    /\ Len(written) = 9
    /\ \E i \in DOMAIN validation_results : ~validation_results[i].result.passed

-----------------------------------------------------------------------------
(* Claims about the summaries *)

AfterByStore == {"by_store", "transformed", "loaded"}
AfterByDate == {"transformed", "loaded"}

\* the known totals of a summary never increase from a row to a later one
NonIncreasing(rows, col) ==
    \A i, j \in Indices(rows) :
        (i < j /\ rows[i][col].t /= "nan" /\ rows[j][col].t /= "nan") =>
            Val(rows[i][col]) >= Val(rows[j][col])

\* every row has a date, later than the date of every row before it
Chronological(rows) ==
    /\ \A i \in Indices(rows) : rows[i]["date"].t = "date"
    /\ \A i, j \in Indices(rows) : i < j => rows[i]["date"].n < rows[j]["date"].n

GroupSize(metrics, key, k) ==
    Cardinality({i \in Indices(metrics) : metrics[i][key] = k})

\* total_transactions of every summary row is the size of its group
CountsGroupRows(metrics, summary, key) ==
    \A g \in Indices(summary) :
        summary[g]["total_transactions"] =
            Int64(GroupSize(metrics, key, summary[g][key]))

\* the total_transactions of a summary, added up
RECURSIVE TransactionsTotal(_, _)
TransactionsTotal(summary, g) ==
    IF g > Len(summary) THEN 0
    ELSE summary[g]["total_transactions"].n + TransactionsTotal(summary, g + 1)

\* C18: total_transactions of every summary row is the number of rows of the
\* metrics batch with that row's key, rows without a transaction_id
\* included, and the total_transactions of a summary add up to the number of
\* rows of the metrics batch.
C18_TotalTransactionsCountsRows ==
    /\ pc \in AfterByCategory =>
          /\ CountsGroupRows(enriched_df.rows, category_summary.rows, "category")
          /\ TransactionsTotal(category_summary.rows, 1) = Len(enriched_df.rows)
    /\ pc \in AfterByStore =>
          /\ CountsGroupRows(enriched_df.rows, store_summary.rows, "store_id")
          /\ TransactionsTotal(store_summary.rows, 1) = Len(enriched_df.rows)
    /\ pc \in AfterByDate =>
          /\ CountsGroupRows(enriched_df.rows, daily_summary.rows, "date")
          /\ TransactionsTotal(daily_summary.rows, 1) = Len(enriched_df.rows)

\* the first half alone: the count of each group that has a summary row
C18_GroupCounts ==
    pc \in AfterByCategory =>
        CountsGroupRows(enriched_df.rows, category_summary.rows, "category")

\* the claim on the batches where every row has a transaction_id and its
\* grouping keys
C18_WhereNothingIsMissing ==
    (\A i \in Indices(enriched_df.rows) :
        \A col \in {"transaction_id", "category", "store_id", "date"} :
            ~IsNa(enriched_df.rows[i][col]))
        => C18_TotalTransactionsCountsRows

-----------------------------------------------------------------------------
(* Claims about clean_products *)

\* what trimming only the strings makes of a cell
TrimmedIfString(c) == IF c.t = "str" THEN Str(Strip(c.s)) ELSE c

\* C19: clean_products trims the strings and leaves every other value as it
\* was: outside cost_price, a cell that is not a string is the same in the
\* output as in the input, and a string cell is its input stripped.
C19_TrimsOnlyStrings ==
    pc = "products_cleaned" =>
        \A i \in Indices(raw_products) :
            \A col \in ProductColumns \ {"cost_price"} :
                clean_products_df.rows[i][col] = TrimmedIfString(raw_products[i][col])

\* the claim on the catalogues where no column mixes strings with numbers
C19_WhereColumnsAreNotMixed ==
    (\A col \in ProductColumns :
        \/ \A i \in Indices(raw_products) : raw_products[i][col].t \in {"str", "null"}
        \/ \A i \in Indices(raw_products) : raw_products[i][col].t /= "str")
        => C19_TrimsOnlyStrings

====
